---- MODULE Spec2Model ----
\* A model of the rs-streamer client actor (src/src/client/actor.rs): the
\* registry of client records, the group router, the tasks spawned for DTLS
\* and RTP/RTCP datagrams, and the pure helpers they use.
EXTENDS Integers, Sequences, FiniteSets, TLC

\* ------------------------------------------------------------------ bounds

\* DTLS datagrams dispatched to Handler<WebRtcRequest> in one run (where
\* the run does not count the datagrams of both kinds together).
MaxDtls == 2
\* RTP/RTCP datagrams dispatched to Handler<WebRtcRequest> in one run.
MaxRtc == 2
\* Longest media table enumerated for the table lookups.
MaxTableLen == 2
\* Datagrams pushed into the duplex byte channel in one run.
MaxPush == 2
\* Reads of the channel in one run, and writes to it.
MaxOps == 3
\* Datagrams of both kinds dispatched in one run of the record life cycle.
MaxDatagrams == 3
\* DTLS records the handshake engine of one client record writes.
MaxRecords == 1

\* ------------------------------------------------------------- value sets

Addrs == {"a1", "a2", "a3"}
AddrOrder == <<"a1", "a2", "a3">>
GroupIds == {1, 2}
TaskIds == 1..(MaxDtls + MaxRtc)
\* Handles of the client records ever allocated: one per address at most
\* before the run, one per datagram at most during it.
Handles == 1..(Len(AddrOrder) + MaxDtls + MaxRtc)
NoClient == 0
NoGroup == 0
\* Option<MediaList>: None, or Some(list).
NoMedia == [some |-> FALSE, list |-> <<>>]
SomeMedia(list) == [some |-> TRUE, list |-> list]
NoName == "none"
NoId == -1

\* Media tables: ordered lists of <<payload_type, codec_name>>.
MediaA == << <<111, "opus">>, <<96, "h264">> >>
MediaB == << <<96, "opus">> >>
Medias == {MediaA, MediaB}

\* An absent registry entry, and the client_ref of a present one.
NoRef == [client |-> NoClient, media |-> NoMedia]
\* A slot of the client heap not yet allocated, and a fresh Client (Default).
\* With the record go its channels: the mutex of the incoming sender
\* (writer), the incoming channel, the outgoing channel (records written by
\* the engine and not taken yet, by number), the number of records written,
\* whether an outgoing stream of the record is registered on the actor's
\* context, and the records a spawned future still has to submit (sending).
NoRecord ==
    [addr |-> "none", state |-> "None", lock |-> 0, writer |-> 0,
     incoming |-> <<>>, connects |-> 0, hs_read |-> {},
     outgoing |-> <<>>, written |-> 0, stream |-> FALSE, sending |-> {}]
NewClient(addr) ==
    [addr |-> addr, state |-> "New", lock |-> 0, writer |-> 0,
     incoming |-> <<>>, connects |-> 0, hs_read |-> {},
     outgoing |-> <<>>, written |-> 0, stream |-> FALSE, sending |-> {}]
\* No signalling message handled, no helper applied.
NoCalc == [op |-> "none"]
\* A destination of a fan-out: (g_addr, (client, payload)).
NoDest == [addr |-> "none", client |-> NoClient, payload |-> 0]
\* ClientSslPackets::new(): both unbounded channels empty, both ends alive,
\* the outgoing sender not shut down; pushed, reads and writes record what
\* was done with the channel.
NewChannel ==
    [incoming |-> <<>>, outgoing |-> <<>>, open |-> TRUE, terminated |-> FALSE,
     shutdown |-> FALSE, pushed |-> <<>>, reads |-> <<>>, writes |-> <<>>]
\* A task slot with nothing left to run.
NoTask ==
    [kind |-> "none", pc |-> "done", addr |-> "none", client |-> NoClient,
     auth |-> FALSE, b1 |-> 0, is_rtcp |-> FALSE, addresses |-> {},
     cur |-> NoDest]

\* Second byte of the datagrams fed to the Rtc branch: RTP pt 111, RTP pt 96
\* with the marker set, and an RTCP sender report (200).
Byte1s == {111, 224, 200}

VARIABLES
    client_storage, \* ClientsRefStorage: addr -> client_ref (handle + media) or absent
    clients,        \* the Arc<Mutex<Client>> records, by handle
    groups,         \* Group: the router (addr -> group id, group id -> members)
    tasks,          \* the futures spawned on the actor context, by dispatch number
    counts,         \* datagrams dispatched so far, by kind
    mailbox,        \* DeleteMessages sent to the actor and not yet handled
    processor,      \* mailbox of the ProcessorActor (task ids awaiting it)
    udp_send,       \* datagrams submitted to the UdpSend sink so far
    deleted,        \* per address: outcomes of DeleteMessage since its last datagram
    calc,           \* the last signalling message handled (a GroupId with the
                    \* group the address was in before), post-handshake read
                    \* made or packet dropped, or a pure helper's enumerated
                    \* input and its result
    channel         \* one duplex byte channel (ClientSslPackets and its
                    \* ClientSslPacketsChannels), with what was pushed, read
                    \* and written

vars == <<client_storage, clients, groups, tasks, counts, mailbox, processor,
          udp_send, deleted, calc, channel>>

\* ---------------------------------------------------------- pure helpers

RECURSIVE BitOr(_, _, _)
\* a | b on the low n bits.
BitOr(a, b, n) ==
    IF n = 0 THEN 0
    ELSE (IF (a % 2 = 1) \/ (b % 2 = 1) THEN 1 ELSE 0)
         + 2 * BitOr(a \div 2, b \div 2, n - 1)

RECURSIVE BitAnd(_, _, _)
\* a & b on the low n bits.
BitAnd(a, b, n) ==
    IF n = 0 THEN 0
    ELSE (IF (a % 2 = 1) /\ (b % 2 = 1) THEN 1 ELSE 0)
         + 2 * BitAnd(a \div 2, b \div 2, n - 1)

\* (x << k) as u8.
Shl8(x, k) == (x * (2 ^ k)) % 256

\* marker as u8
BoolU8(marker) == IF marker THEN 1 ELSE 0

\* const fn calculate_payload(marker: bool, payload: u8) -> u8
calculate_payload(marker, payload) ==
    BitOr(payload, Shl8(BoolU8(marker), 7), 8)

\* RtpHeader::from_buf: the marker bit and the payload type of byte 1.
HeaderMarker(b1) == (b1 \div 128) = 1
HeaderPayload(b1) == b1 % 128

\* rtp::core::is_rtcp: (byte[1] & 0x7F) in 64..=95.
is_rtcp(b1) == (b1 % 128) \in 64..95

RECURSIVE get_name(_, _)
\* MediaList::get_name: the pt -> name index (a later pair of the list
\* overwrites an earlier one with the same payload type).
get_name(media, pt) ==
    IF Len(media) = 0 THEN NoName
    ELSE IF media[Len(media)][1] = pt THEN media[Len(media)][2]
    ELSE get_name(SubSeq(media, 1, Len(media) - 1), pt)

RECURSIVE get_id(_, _)
\* MediaList::get_id: the name -> pt index (a later pair of the list
\* overwrites an earlier one with the same codec name).
get_id(media, name) ==
    IF Len(media) = 0 THEN NoId
    ELSE IF media[Len(media)][2] = name THEN media[Len(media)][1]
    ELSE get_id(SubSeq(media, 1, Len(media) - 1), name)

\* ------------------------------------------------------------ group router

\* Group::default(): no address in any group.
EmptyGroup ==
    [addr_group |-> [a \in Addrs |-> NoGroup], members |-> [g \in GroupIds |-> {}]]

\* Group::get_addressess(addr): the other members of addr's group, or None.
get_addressess(g, addr) ==
    IF g.addr_group[addr] = NoGroup
    THEN [some |-> FALSE, set |-> {}]
    ELSE [some |-> TRUE, set |-> g.members[g.addr_group[addr]] \ {addr}]

\* Group::insert_client(group_id, addr): addr is added to the members of
\* group_id and the map addr -> group id takes group_id. Membership is
\* append-only: a join takes no address out of any member set, only
\* remove_client does.
insert_client(g, group_id, addr) ==
    [addr_group |-> [g.addr_group EXCEPT ![addr] = group_id],
     members |-> [g.members EXCEPT ![group_id] = @ \cup {addr}]]

\* A remove that clears the address map and leaves the member sets alone.
remove_client_map_only(g, addr) ==
    [groups |-> [addr_group |-> [g.addr_group EXCEPT ![addr] = NoGroup],
                 members |-> g.members],
     removed |-> g.addr_group[addr] # NoGroup]

\* Group::remove_client(addr): the router without addr, and whether
\* membership existed.
remove_client(g, addr) ==
    [groups |-> [addr_group |-> [g.addr_group EXCEPT ![addr] = NoGroup],
                 members |-> [x \in GroupIds |-> g.members[x] \ {addr}]],
     removed |-> g.addr_group[addr] # NoGroup]

\* -------------------------------------------------- destination selection

contains_key(storage, addr) == storage[addr].client # NoClient

\* client_storage.entry(addr).or_default(): the registry with a record for
\* addr, created under handle id when there is none.
entry_or_default(storage, addr, id) ==
    IF contains_key(storage, addr) THEN storage
    ELSE [storage EXCEPT ![addr] = [client |-> id, media |-> NoMedia]]

\* A codec lookup that takes the whole byte 1 for the payload type, marker
\* bit included.
Codec_raw_byte(client_ref, b1) ==
    IF client_ref.media.some /\ get_name(client_ref.media.list, b1) # NoName
    THEN [some |-> TRUE, marker |-> HeaderMarker(b1),
          name |-> get_name(client_ref.media.list, b1)]
    ELSE [some |-> FALSE, marker |-> FALSE, name |-> NoName]

\* The codec of an RTP packet: (marker, name of its payload type in the
\* source's media table), or None.
Codec(client_ref, b1) ==
    IF client_ref.media.some
       /\ get_name(client_ref.media.list, HeaderPayload(b1)) # NoName
    THEN [some |-> TRUE, marker |-> HeaderMarker(b1),
          name |-> get_name(client_ref.media.list, HeaderPayload(b1))]
    ELSE [some |-> FALSE, marker |-> FALSE, name |-> NoName]

\* An RTCP destination map that keeps only the members with a media table,
\* as the RTP one does.
RtcpAddresses_with_table(storage, g, addr) ==
    { [addr |-> g_addr, client |-> storage[g_addr].client, payload |-> 0] :
        g_addr \in { x \in get_addressess(g, addr).set :
                       contains_key(storage, x) /\ storage[x].media.some } }

\* The RTCP destination map: every other member that has a client record,
\* with payload 0.
RtcpAddresses(storage, g, addr) ==
    { [addr |-> g_addr, client |-> storage[g_addr].client, payload |-> 0] :
        g_addr \in { x \in get_addressess(g, addr).set : contains_key(storage, x) } }

\* new_payload: the payload type of the codec in a destination's table.
new_payload(media, codec) == get_id(media.list, codec.name)

\* A filter_map that keeps every member with a media table, whether or not
\* the table knows the codec.
RtpKeeps_any_table(storage, codec, g_addr) ==
    /\ contains_key(storage, g_addr)
    /\ storage[g_addr].media.some
    /\ codec.some

\* Whether g_addr is kept by the RTP filter_map: it has a record, a media
\* table, the packet has a codec and the table knows its name.
RtpKeeps(storage, codec, g_addr) ==
    /\ contains_key(storage, g_addr)
    /\ storage[g_addr].media.some
    /\ codec.some
    /\ new_payload(storage[g_addr].media, codec) # NoId

\* The RTP destination map: each kept member with its rewritten byte.
RtpAddresses(storage, g, addr, b1) ==
    { [addr |-> g_addr, client |-> storage[g_addr].client,
       payload |-> calculate_payload(
                      Codec(storage[addr], b1).marker,
                      new_payload(storage[g_addr].media,
                                  Codec(storage[addr], b1)))] :
        g_addr \in { x \in get_addressess(g, addr).set :
                       RtpKeeps(storage, Codec(storage[addr], b1), x) } }

\* `addresses` of the Rtc branch, computed after entry(addr).or_default().
Addresses(storage, g, addr, b1) ==
    IF is_rtcp(b1) THEN RtcpAddresses(storage, g, addr)
    ELSE RtpAddresses(storage, g, addr, b1)

\* --------------------------------------------------------------- the actor

Init ==
    /\ client_storage = [a \in Addrs |-> NoRef]
    /\ clients = [c \in Handles |-> NoRecord]
    /\ groups = EmptyGroup
    /\ tasks = [t \in TaskIds |-> NoTask]
    /\ counts = [dtls |-> 0, rtc |-> 0]
    /\ mailbox = <<>>
    /\ processor = <<>>
    /\ udp_send = {}
    /\ deleted = [a \in Addrs |-> <<>>]
    /\ calc = NoCalc
    /\ channel = NewChannel

\* The dispatch number of the next datagram: it names the task spawned for
\* it.
nextId == counts.dtls + counts.rtc + 1

\* A task ends, or moves to another await point.
Finish(t) == [tasks EXCEPT ![t] = NoTask]
Goto(t, pc) == [tasks EXCEPT ![t].pc = pc]

\* Addresses that ever had a client record.
Allocated == { c \in Handles : clients[c].state # "None" }
Seen == { clients[c].addr : c \in Allocated }

\* The handle of the next client record.
nextHandle == Cardinality(Allocated) + 1

\* Datagram sources: a known address, or the first address never seen
\* (addresses are interchangeable, so new ones appear in a fixed order).
Sources ==
    Seen \cup { AddrOrder[i] : i \in { j \in 1..Len(AddrOrder) :
                   /\ AddrOrder[j] \notin Seen
                   /\ \A k \in 1..(j - 1) : AddrOrder[k] \in Seen } }

\* A registry whose new entry takes over the last record the address had.
Allocate_stale(addr, id) ==
    IF contains_key(client_storage, addr) THEN clients
    ELSE [clients EXCEPT ![id] =
            IF \E c \in Allocated : clients[c].addr = addr
            THEN clients[CHOOSE c \in Allocated :
                           /\ clients[c].addr = addr
                           /\ \A d \in Allocated : clients[d].addr = addr => d <= c]
            ELSE NewClient(addr)]

\* The client heap after entry(addr).or_default() under handle id.
Allocate(addr, id) ==
    IF contains_key(client_storage, addr) THEN clients
    ELSE [clients EXCEPT ![id] = NewClient(addr)]

\* ctx.add_message_stream(client_ref.outgoing_stream(addr)): the records of
\* the outgoing channel of record c come to Handler<DtlsMessage> from now
\* on, whatever happens to the registry entry.
add_message_stream(heap, c) == [heap EXCEPT ![c].stream = TRUE]

\* Handler<WebRtcRequest>, WebRtcRequest::Dtls(message, addr): the entry is
\* taken or created, its outgoing stream registered and the task spawned.
HandleDtls(addr) ==
    /\ client_storage' = entry_or_default(client_storage, addr, nextHandle)
    /\ clients' = add_message_stream(Allocate(addr, nextHandle),
                                     client_storage'[addr].client)
    /\ tasks' = [tasks EXCEPT ![nextId] =
                   [NoTask EXCEPT !.kind = "dtls", !.pc = "push", !.addr = addr,
                                  !.client = client_storage'[addr].client]]
    /\ counts' = [counts EXCEPT !.dtls = @ + 1]
    /\ deleted' = [deleted EXCEPT ![addr] = <<>>]
    /\ UNCHANGED <<channel, calc, groups, mailbox, processor, udp_send>>

\* Handler<WebRtcRequest>, WebRtcRequest::Rtc(message, addr): a task is
\* spawned only for a non-empty destination map.
HandleRtc(addr, b1, auth) ==
    /\ counts.rtc < MaxRtc
    /\ client_storage' = entry_or_default(client_storage, addr, nextHandle)
    /\ clients' = Allocate(addr, nextHandle)
    /\ LET addresses == Addresses(client_storage', groups, addr, b1) IN
       tasks' = [tasks EXCEPT ![nextId] =
                   IF get_addressess(groups, addr).some /\ addresses # {}
                   THEN [NoTask EXCEPT !.kind = "rtc", !.pc = "lock_src",
                                       !.addr = addr,
                                       !.client = client_storage'[addr].client,
                                       !.auth = auth, !.b1 = b1,
                                       !.is_rtcp = is_rtcp(b1),
                                       !.addresses = addresses]
                   ELSE NoTask]
    /\ counts' = [counts EXCEPT !.rtc = @ + 1]
    /\ deleted' = [deleted EXCEPT ![addr] = <<>>]
    /\ UNCHANGED <<channel, calc, groups, mailbox, processor, udp_send>>

\* What the sender of a DeleteMessage does once the reply arrives.
AfterDelete(pc) ==
    CASE pc = "push_del" -> "push_drop"
      [] pc = "connect_del" -> "connect_end"
      [] pc = "extract_del" -> "done"
      [] OTHER -> pc

\* The result of Handler<DeleteMessage>: the record was removed and
\* remove_client reported a membership.
DeleteResult(storage, g, addr) ==
    contains_key(storage, addr) /\ remove_client(g, addr).removed

\* A Handler<DeleteMessage> that removes the registry entry and leaves the
\* group router alone.
HandleDelete_registry_only ==
    /\ mailbox # <<>>
    /\ LET addr == Head(mailbox).addr
           from == Head(mailbox).from
           existed == contains_key(client_storage, addr)
       IN
       /\ client_storage' = [client_storage EXCEPT ![addr] = NoRef]
       /\ tasks' = IF AfterDelete(tasks[from].pc) = "done" THEN Finish(from)
                   ELSE Goto(from, AfterDelete(tasks[from].pc))
       /\ deleted' = [deleted EXCEPT ![addr] =
                        IF (@ = <<>> /\ ~existed) \/ Len(@) >= 2 THEN @
                        ELSE Append(@, [existed |-> existed, result |-> existed])]
    /\ mailbox' = Tail(mailbox)
    /\ UNCHANGED <<channel, calc, clients, groups, counts, processor, udp_send>>

\* Handler<DeleteMessage> for the oldest DeleteMessage of the mailbox.
HandleDelete ==
    /\ mailbox # <<>>
    /\ LET addr == Head(mailbox).addr
           from == Head(mailbox).from
           existed == contains_key(client_storage, addr)
           result == DeleteResult(client_storage, groups, addr)
       IN
       /\ client_storage' = [client_storage EXCEPT ![addr] = NoRef]
       /\ groups' = IF existed THEN remove_client(groups, addr).groups ELSE groups
       /\ tasks' = IF AfterDelete(tasks[from].pc) = "done" THEN Finish(from)
                   ELSE Goto(from, AfterDelete(tasks[from].pc))
       /\ deleted' = [deleted EXCEPT ![addr] =
                        IF (@ = <<>> /\ ~existed) \/ Len(@) >= 2 THEN @
                        ELSE Append(@, [existed |-> existed, result |-> result])]
    /\ mailbox' = Tail(mailbox)
    /\ UNCHANGED <<channel, calc, clients, counts, processor, udp_send>>

\* A Handler<GroupId> without the contains_key check.
HandleGroupId_unchecked(group_id, addr) ==
    /\ groups' = insert_client(groups, group_id, addr)
    /\ calc' = [op |-> "GroupId", addr |-> addr, group_id |-> group_id,
                was |-> groups.addr_group[addr]]
    /\ UNCHANGED <<channel, client_storage, clients, tasks, counts, mailbox, processor,
                   udp_send, deleted>>

\* Handler<GroupId>.
HandleGroupId(group_id, addr) ==
    /\ groups' = IF contains_key(client_storage, addr)
                 THEN insert_client(groups, group_id, addr)
                 ELSE groups
    /\ calc' = [op |-> "GroupId", addr |-> addr, group_id |-> group_id,
                was |-> groups.addr_group[addr]]
    /\ UNCHANGED <<channel, client_storage, clients, tasks, counts, mailbox, processor,
                   udp_send, deleted>>

\* Handler<MediaAddrMessage>.
HandleMedia(addr, media) ==
    /\ client_storage' =
          IF contains_key(client_storage, addr)
          THEN [client_storage EXCEPT ![addr].media = SomeMedia(media)]
          ELSE client_storage
    /\ calc' = [op |-> "MediaAddrMessage", addr |-> addr, media |-> media]
    /\ UNCHANGED <<channel, clients, groups, tasks, counts, mailbox, processor,
                   udp_send, deleted>>

\* ------------------------------------------------------- the DTLS task

DeleteMessage(addr, t) == [addr |-> addr, from |-> t]

\* The incoming channel of a client is closed once its reader is dropped,
\* which is when the state that owns the stream is replaced by Shutdown.
is_closed(client) == client.state = "Shutdown"

\* A task that only logs a failed push and goes on to the client's guard.
PushDtls_silent(t) ==
    /\ tasks[t].pc = "push"
    /\ clients[tasks[t].client].writer = 0
    /\ LET c == tasks[t].client IN
       clients' = IF is_closed(clients[c]) THEN clients
                  ELSE [clients EXCEPT ![c].incoming = Append(@, t)]
    /\ tasks' = Goto(t, "lock")
    /\ UNCHANGED <<channel, calc, client_storage, groups, counts, mailbox,
                   processor, udp_send, deleted>>

\* incoming_writer.lock().await, then push_dtls: the task waits while
\* another task holds the mutex of the record's incoming sender. After a
\* push that succeeded the guard is dropped at once; a failed push sends
\* DeleteMessage(addr) and awaits the reply with the guard still held.
PushDtls(t) ==
    /\ tasks[t].pc = "push"
    /\ clients[tasks[t].client].writer = 0
    /\ LET c == tasks[t].client IN
       IF is_closed(clients[c])
       THEN /\ mailbox' = Append(mailbox, DeleteMessage(tasks[t].addr, t))
            /\ tasks' = Goto(t, "push_del")
            /\ clients' = [clients EXCEPT ![c].writer = t]
       ELSE /\ clients' = [clients EXCEPT ![c].incoming = Append(@, t)]
            /\ tasks' = Goto(t, "lock")
            /\ UNCHANGED mailbox
    /\ UNCHANGED <<channel, calc, client_storage, groups, counts, processor, udp_send, deleted>>

\* The reply to the DeleteMessage of a failed push arrived:
\* drop(incoming_writer) frees the sender's mutex and the task goes on to
\* the client's guard.
DropIncomingWriter(t) ==
    /\ tasks[t].pc = "push_drop"
    /\ clients' = [clients EXCEPT ![tasks[t].client].writer = 0]
    /\ tasks' = Goto(t, "lock")
    /\ UNCHANGED <<channel, calc, client_storage, groups, counts, mailbox, processor,
                   udp_send, deleted>>

\* A match whose Connected and Shutdown arms run the handshake again.
StateArm_reconnect(state) ==
    CASE state = "None" -> "done"
      [] OTHER -> "connect"

\* The arm of `match client_unlocked.state` a task enters.
StateArm(state) ==
    CASE state = "New" -> "connect"
      [] state = "Connected" -> "extract"
      [] OTHER -> "done"

\* A task that matches on the state without waiting for the client's guard.
LockClient_no_guard(t) ==
    /\ tasks[t].pc = "lock"
    /\ LET c == tasks[t].client
           arm == StateArm(clients[c].state) IN
       /\ clients' = IF arm = "done" THEN clients
                     ELSE [clients EXCEPT
                             ![c].lock = t,
                             ![c].connects = IF arm = "connect" THEN @ + 1 ELSE @]
       /\ tasks' = IF arm = "done" THEN Finish(t) ELSE Goto(t, arm)
    /\ UNCHANGED <<channel, calc, client_storage, groups, counts, mailbox, processor, udp_send,
                   deleted>>

\* client.lock().await, then the match on the state: New enters connect,
\* Connected enters extract_dtls, Shutdown drops the guard at once.
LockClient(t) ==
    /\ tasks[t].pc = "lock"
    /\ LET c == tasks[t].client
           arm == StateArm(clients[c].state) IN
       /\ clients[c].lock = 0
       /\ clients' = IF arm = "done" THEN clients
                     ELSE [clients EXCEPT
                             ![c].lock = t,
                             ![c].connects = IF arm = "connect" THEN @ + 1 ELSE @]
       /\ tasks' = IF arm = "done" THEN Finish(t) ELSE Goto(t, arm)
    /\ UNCHANGED <<channel, calc, client_storage, groups, counts, mailbox, processor, udp_send,
                   deleted>>

\* The client a failed connect leaves: the stream was taken out of the
\* state and is gone with what was queued for it.
connect_err(client) == [client EXCEPT !.state = "Shutdown", !.incoming = <<>>]

\* The client a successful connect leaves: the SRTP sessions are installed.
connect_ok(client) == [client EXCEPT !.state = "Connected"]

\* connect: the handshake engine reads the next datagram of the incoming
\* channel.
HandshakeRead(t) ==
    /\ tasks[t].pc = "connect"
    /\ LET c == tasks[t].client IN
       /\ clients[c].incoming # <<>>
       /\ clients' = [clients EXCEPT
                        ![c].hs_read = @ \cup {Head(clients[c].incoming)},
                        ![c].incoming = Tail(@)]
    /\ UNCHANGED <<channel, calc, client_storage, groups, tasks, counts, mailbox, processor,
                   udp_send, deleted>>

\* connect returns Ok: the SRTP sessions are installed (Connected) and the
\* guard is dropped at the end of the task.
HandshakeOk(t) ==
    /\ tasks[t].pc = "connect"
    /\ LET c == tasks[t].client IN
       /\ clients[c].hs_read # {}
       /\ clients' = [clients EXCEPT ![c] = [connect_ok(@) EXCEPT !.lock = 0]]
    /\ tasks' = Finish(t)
    /\ UNCHANGED <<channel, calc, client_storage, groups, counts, mailbox, processor, udp_send,
                   deleted>>

\* A New arm that logs the failed connect and sends no DeleteMessage.
HandshakeErr_no_delete(t) ==
    /\ tasks[t].pc = "connect"
    /\ LET c == tasks[t].client IN
       clients' = [clients EXCEPT ![c] = connect_err(@)]
    /\ tasks' = Goto(t, "connect_end")
    /\ UNCHANGED <<channel, calc, client_storage, groups, counts, mailbox, processor, udp_send,
                   deleted>>

\* connect returns Err (handshake error or the 10 s deadline):
\* DeleteMessage(addr) is sent and its reply awaited with the guard still
\* held.
HandshakeErr(t) ==
    /\ tasks[t].pc = "connect"
    /\ LET c == tasks[t].client IN
       clients' = [clients EXCEPT ![c] = connect_err(@)]
    /\ mailbox' = Append(mailbox, DeleteMessage(tasks[t].addr, t))
    /\ tasks' = Goto(t, "connect_del")
    /\ UNCHANGED <<channel, calc, client_storage, groups, counts, processor, udp_send, deleted>>

\* The reply of the DeleteMessage arrived: the New arm ends, guard dropped.
ConnectEnd(t) ==
    /\ tasks[t].pc = "connect_end"
    /\ clients' = [clients EXCEPT ![tasks[t].client].lock = 0]
    /\ tasks' = Finish(t)
    /\ UNCHANGED <<channel, calc, client_storage, groups, counts, mailbox, processor, udp_send,
                   deleted>>

\* A Connected arm that sends DeleteMessage on every Ok(_), not only Ok(0).
ExtractDtls_any_ok(t, result) ==
    /\ tasks[t].pc = "extract"
    /\ LET c == tasks[t].client IN
       /\ result \in {"zero", "data"} => clients[c].incoming # <<>>
       /\ clients' = [clients EXCEPT
                        ![c].lock = 0,
                        ![c].incoming = IF result = "timeout" THEN <<>> ELSE Tail(@)]
    /\ IF result \in {"zero", "data"}
       THEN /\ mailbox' = Append(mailbox, DeleteMessage(tasks[t].addr, t))
            /\ tasks' = Goto(t, "extract_del")
       ELSE /\ tasks' = Finish(t)
            /\ UNCHANGED mailbox
    /\ calc' = [op |-> "extract_dtls", addr |-> tasks[t].addr, result |-> result]
    /\ UNCHANGED <<channel, client_storage, groups, counts, processor, udp_send, deleted>>

\* timeout(10 ms, extract_dtls): result is Ok(0) ("zero"), Ok(n) ("data")
\* or TimedOut ("timeout"); the guard is dropped, and Ok(0) sends
\* DeleteMessage(addr).
ExtractDtls(t, result) ==
    /\ tasks[t].pc = "extract"
    /\ LET c == tasks[t].client IN
       /\ result \in {"zero", "data"} => clients[c].incoming # <<>>
       /\ clients' = [clients EXCEPT
                        ![c].lock = 0,
                        ![c].incoming = IF result = "timeout" THEN <<>> ELSE Tail(@)]
    /\ IF result = "zero"
       THEN /\ mailbox' = Append(mailbox, DeleteMessage(tasks[t].addr, t))
            /\ tasks' = Goto(t, "extract_del")
       ELSE /\ tasks' = Finish(t)
            /\ UNCHANGED mailbox
    /\ calc' = [op |-> "extract_dtls", addr |-> tasks[t].addr, result |-> result]
    /\ UNCHANGED <<channel, client_storage, groups, counts, processor, udp_send, deleted>>

\* ------------------------------------------- the outgoing DTLS records

\* connect: the handshake engine, which has read a datagram, writes a record
\* to the outgoing channel of the record (poll_write).
HandshakeWrite(t) ==
    /\ tasks[t].pc = "connect"
    /\ LET c == tasks[t].client IN
       /\ clients[c].hs_read # {}
       /\ clients[c].written < MaxRecords
       /\ clients' = [clients EXCEPT
                        ![c].written = @ + 1,
                        ![c].outgoing = Append(@, clients[c].written + 1)]
    /\ UNCHANGED <<channel, calc, client_storage, groups, tasks, counts, mailbox, processor,
                   udp_send, deleted>>

\* item.into_webrtc(): WebRtcRequest::Dtls(message, addr) for the n-th
\* record of client record c, addressed to the record's address.
into_webrtc(c, n) ==
    [kind |-> "Dtls", task |-> 0, src |-> "none", dst |-> clients[c].addr,
     b1 |-> 0, payload |-> 0, client |-> c, n |-> n]

\* Handler<DtlsMessage> for the next record of the outgoing stream of
\* record c (MessageType::Outgoing): a future that will submit it is
\* spawned. Neither the registry nor the state of the record is looked at.
HandleDtlsMessage(c) ==
    /\ clients[c].stream
    /\ clients[c].outgoing # <<>>
    /\ clients' = [clients EXCEPT
                     ![c].outgoing = Tail(@),
                     ![c].sending = @ \cup {Head(clients[c].outgoing)}]
    /\ UNCHANGED <<channel, calc, client_storage, groups, tasks, counts, mailbox, processor,
                   udp_send, deleted>>

\* The spawned future runs: udp_send.send(item.into_webrtc()).
SendDtls(c, n) ==
    /\ n \in clients[c].sending
    /\ udp_send' = udp_send \cup {into_webrtc(c, n)}
    /\ clients' = [clients EXCEPT ![c].sending = @ \ {n}]
    /\ UNCHANGED <<channel, calc, client_storage, groups, tasks, counts, mailbox, processor,
                   deleted>>

\* ----------------------------------------------------- the packet task

\* client.lock_owned() on the source, then ProcessRtpPacket is sent to the
\* processor with the guard inside.
LockSource(t) ==
    /\ tasks[t].pc = "lock_src"
    /\ clients[tasks[t].client].lock = 0
    /\ clients' = [clients EXCEPT ![tasks[t].client].lock = t]
    /\ processor' = Append(processor, t)
    /\ tasks' = Goto(t, "unprotect")
    /\ UNCHANGED <<channel, calc, client_storage, groups, counts, mailbox, udp_send, deleted>>

\* SRTP needs the sessions of a Connected client.
SrtpReady(client) == client.state = "Connected"

\* The task moves to one of the destinations left, in the iteration order
\* of its HashMap (any order), or ends when none is left.
NextDest(t, left) ==
    { IF left = {} THEN NoTask
      ELSE [tasks[t] EXCEPT !.pc = "lock_dst", !.addresses = left, !.cur = d] :
        d \in IF left = {} THEN {NoDest} ELSE left }

\* A datagram addressed with the handler's `addr` (the source) instead of
\* the destination's `addr` that shadows it inside the stream.
Datagram_outer_addr(t) ==
    [kind |-> "Rtc", task |-> t, src |-> tasks[t].addr, dst |-> tasks[t].addr,
     b1 |-> tasks[t].b1, payload |-> tasks[t].cur.payload,
     client |-> NoClient, n |-> 0]

\* The datagram handed to the sink, WebRtcRequest::Rtc(message, addr):
\* which packet, from whom, to whom.
Datagram(t) ==
    [kind |-> "Rtc", task |-> t, src |-> tasks[t].addr, dst |-> tasks[t].cur.addr,
     b1 |-> tasks[t].b1, payload |-> tasks[t].cur.payload,
     client |-> NoClient, n |-> 0]

\* A processor that hands the source's guard back to the packet stream
\* with its reply, so that the stream keeps it while it goes through the
\* destinations.
ProcessorHandle_keeps_guard ==
    /\ processor # <<>>
    /\ LET t == Head(processor) IN
       IF tasks[t].pc = "unprotect"
       THEN LET c == tasks[t].client IN
            /\ UNCHANGED clients
            /\ IF SrtpReady(clients[c]) /\ tasks[t].auth
               THEN \E n \in NextDest(t, tasks[t].addresses) :
                       tasks' = [tasks EXCEPT ![t] = n]
               ELSE tasks' = Finish(t)
            /\ UNCHANGED udp_send
       ELSE LET c == tasks[t].cur.client IN
            /\ clients' = [clients EXCEPT ![c].lock = 0]
            /\ IF SrtpReady(clients[c])
               THEN tasks' = Goto(t, "submit")
               ELSE tasks' = Finish(t)
            /\ UNCHANGED udp_send
    /\ processor' = Tail(processor)
    /\ UNCHANGED <<channel, calc, client_storage, groups, counts, mailbox, deleted>>

\* A packet stream that goes on to the destinations whatever the reply to
\* ProcessRtpPacket was.
ProcessorHandle_unchecked_reply ==
    /\ processor # <<>>
    /\ LET t == Head(processor) IN
       IF tasks[t].pc = "unprotect"
       THEN LET c == tasks[t].client IN
            /\ clients' = [clients EXCEPT ![c].lock = 0]
            /\ \E n \in NextDest(t, tasks[t].addresses) :
                  tasks' = [tasks EXCEPT ![t] = n]
            /\ UNCHANGED udp_send
       ELSE LET c == tasks[t].cur.client IN
            /\ clients' = [clients EXCEPT ![c].lock = 0]
            /\ IF SrtpReady(clients[c])
               THEN tasks' = Goto(t, "submit")
               ELSE tasks' = Finish(t)
            /\ UNCHANGED udp_send
    /\ processor' = Tail(processor)
    /\ UNCHANGED <<channel, calc, client_storage, groups, counts, mailbox, deleted>>

\* The ProcessorActor handles its oldest message: ProcessRtpPacket
\* (unprotect with the source's inbound session) or ProtectRtpPacket
\* (protect with the destination's outbound session); the guard carried by
\* the message is dropped. An error ends the task; the reply of a protect
\* resolves the stream's `then`, and the task submits the datagram when the
\* actor's context polls it again (SendRtc). A packet dropped by a failed
\* unprotect is noted in calc.
ProcessorHandle ==
    /\ processor # <<>>
    /\ LET t == Head(processor) IN
       IF tasks[t].pc = "unprotect"
       THEN LET c == tasks[t].client IN
            /\ clients' = [clients EXCEPT ![c].lock = 0]
            /\ IF SrtpReady(clients[c]) /\ tasks[t].auth
               THEN \E n \in NextDest(t, tasks[t].addresses) :
                       tasks' = [tasks EXCEPT ![t] = n]
               ELSE tasks' = Finish(t)
            /\ UNCHANGED udp_send
       ELSE LET c == tasks[t].cur.client IN
            /\ clients' = [clients EXCEPT ![c].lock = 0]
            /\ IF SrtpReady(clients[c])
               THEN tasks' = Goto(t, "submit")
               ELSE tasks' = Finish(t)
            /\ UNCHANGED udp_send
    /\ processor' = Tail(processor)
    /\ calc' = IF tasks[Head(processor)].pc = "unprotect"
                  /\ tasks'[Head(processor)] = NoTask
               THEN [op |-> "dropped", task |-> Head(processor)]
               ELSE calc
    /\ UNCHANGED <<channel, client_storage, groups, counts, mailbox, deleted>>

\* client.lock_owned() on the current destination, then ProtectRtpPacket.
LockDest(t) ==
    /\ tasks[t].pc = "lock_dst"
    /\ clients[tasks[t].cur.client].lock = 0
    /\ clients' = [clients EXCEPT ![tasks[t].cur.client].lock = t]
    /\ processor' = Append(processor, t)
    /\ tasks' = Goto(t, "protect")
    /\ UNCHANGED <<channel, calc, client_storage, groups, counts, mailbox, udp_send, deleted>>

\* The task is polled after the reply to ProtectRtpPacket: the stream's
\* `and_then` submits the protected datagram to the sink with
\* udp_send.send(WebRtcRequest::Rtc(message, addr)), addr being the
\* destination's.
SendRtc(t) ==
    /\ tasks[t].pc = "submit"
    /\ udp_send' = udp_send \cup {Datagram(t)}
    /\ tasks' = Goto(t, "sent")
    /\ UNCHANGED <<channel, calc, client_storage, clients, groups, counts, mailbox, processor,
                   deleted>>

\* The sink replied: the stream moves on to the next destination.
UdpDone(t) ==
    /\ tasks[t].pc = "sent"
    /\ \E n \in NextDest(t, tasks[t].addresses \ {tasks[t].cur}) :
          tasks' = [tasks EXCEPT ![t] = n]
    /\ UNCHANGED <<channel, calc, client_storage, clients, groups, counts, mailbox, processor,
                   udp_send, deleted>>

\* ------------------------------------------------------ the specification

DtlsSteps ==
    \/ \E t \in TaskIds : PushDtls(t)
    \/ \E t \in TaskIds : DropIncomingWriter(t)
    \/ \E t \in TaskIds : LockClient(t)
    \/ \E t \in TaskIds : HandshakeRead(t)
    \/ \E t \in TaskIds : HandshakeOk(t)
    \/ \E t \in TaskIds : HandshakeErr(t)
    \/ \E t \in TaskIds : ConnectEnd(t)
    \/ \E t \in TaskIds, result \in {"zero", "data", "timeout"} : ExtractDtls(t, result)

\* The records the handshake engine writes and their way to the sink.
OutgoingSteps ==
    \/ \E t \in TaskIds : HandshakeWrite(t)
    \/ \E c \in Handles : HandleDtlsMessage(c)
    \/ \E c \in Handles, n \in 1..MaxRecords : SendDtls(c, n)

PacketSteps ==
    \/ \E t \in TaskIds : LockSource(t)
    \/ ProcessorHandle
    \/ \E t \in TaskIds : LockDest(t)
    \/ \E t \in TaskIds : SendRtc(t)
    \/ \E t \in TaskIds : UdpDone(t)

\* The actor with every kind of message and every task.
Next ==
    \/ /\ counts.dtls < MaxDtls
       /\ \E addr \in Sources : HandleDtls(addr)
    \/ \E addr \in Sources, b1 \in Byte1s, auth \in BOOLEAN : HandleRtc(addr, b1, auth)
    \/ HandleDelete
    \/ \E group_id \in GroupIds, addr \in Addrs : HandleGroupId(group_id, addr)
    \/ \E addr \in Addrs, media \in Medias : HandleMedia(addr, media)
    \/ DtlsSteps
    \/ OutgoingSteps
    \/ PacketSteps

Spec == Init /\ [][Next]_vars

\* The DTLS side alone: DTLS datagrams, their tasks, the DeleteMessages they
\* send and group joins.
NextDtls ==
    \/ /\ counts.dtls < MaxDtls
       /\ \E addr \in Sources : HandleDtls(addr)
    \/ HandleDelete
    \/ \E group_id \in GroupIds, addr \in Addrs : HandleGroupId(group_id, addr)
    \/ DtlsSteps

SpecDtls == Init /\ [][NextDtls]_vars

\* The registry under every signalling history: DTLS datagrams create the
\* records and start their tasks, which run to their end; the DeleteMessages
\* they send remove records again; GroupId and MediaAddrMessage arrive for
\* addresses with or without a record, at any point of these histories.
\* The addresses signalling sends a GroupId for.
SignalJoiners == {"a1", "a2"}

\* The address signalling sends a MediaAddrMessage for.
SignalMediaAddr == AddrOrder[1]

NextSignal ==
    \/ /\ counts.dtls < MaxDtls
       /\ \E addr \in Sources : HandleDtls(addr)
    \/ HandleDelete
    \/ \E group_id \in GroupIds, addr \in SignalJoiners :
          HandleGroupId(group_id, addr)
    \/ HandleMedia(SignalMediaAddr, MediaA)
    \/ DtlsSteps

SpecSignal == Init /\ [][NextSignal]_vars

\* Fan-out between connected clients. The initial states are those the
\* actor is in once a DTLS datagram from each address was dispatched and its
\* handshake succeeded (records 1..3, Connected, no task left), and
\* signalling put clients into group 1 and attached media tables; the
\* datagrams of the run are counted from there.
\* The configurations signalling left: who is in group 1, the media table
\* of each client (a shared codec under different payload types, a codec
\* one table lacks, a client without a table, a client outside the group),
\* and the clients whose record is still New (created by an earlier
\* RTP/RTCP datagram, no handshake yet).
FanoutConfigs ==
    { [members |-> {"a1", "a2", "a3"}, fresh |-> {},
       media |-> [a \in Addrs |-> IF a = "a3" THEN SomeMedia(MediaB)
                                  ELSE SomeMedia(MediaA)]],
      [members |-> {"a1", "a2", "a3"}, fresh |-> {},
       media |-> [a \in Addrs |-> IF a = "a1" THEN SomeMedia(MediaA)
                                  ELSE IF a = "a2" THEN SomeMedia(MediaB)
                                  ELSE NoMedia]],
      [members |-> {"a1", "a2"}, fresh |-> {},
       media |-> [a \in Addrs |-> SomeMedia(MediaA)]],
      [members |-> {"a1", "a2", "a3"}, fresh |-> {"a3"},
       media |-> [a \in Addrs |-> SomeMedia(MediaA)]] }

InitFanout ==
    /\ \E cfg \in FanoutConfigs :
          /\ client_storage =
                [a \in Addrs |->
                   [client |-> CHOOSE i \in 1..Len(AddrOrder) : AddrOrder[i] = a,
                    media |-> cfg.media[a]]]
          /\ groups =
                [addr_group |-> [a \in Addrs |->
                                   IF a \in cfg.members THEN 1 ELSE NoGroup],
                 members |-> [g \in GroupIds |-> IF g = 1 THEN cfg.members ELSE {}]]
          /\ clients = [c \in Handles |->
                          IF c > Len(AddrOrder) THEN NoRecord
                          ELSE IF AddrOrder[c] \in cfg.fresh
                          THEN NewClient(AddrOrder[c])
                          ELSE [NewClient(AddrOrder[c]) EXCEPT
                                  !.state = "Connected", !.connects = 1,
                                  !.hs_read = {0}, !.stream = TRUE]]
    /\ tasks = [t \in TaskIds |-> NoTask]
    /\ counts = [dtls |-> 0, rtc |-> 0]
    /\ mailbox = <<>>
    /\ processor = <<>>
    /\ udp_send = {}
    /\ deleted = [a \in Addrs |-> <<>>]
    /\ calc = NoCalc
    /\ channel = NewChannel

\* The packets of a fan-out run, <<second byte, authentic>>: every kind
\* authentic, and an RTP and an RTCP packet whose unprotect fails.
FanoutPackets ==
    { <<b1, TRUE>> : b1 \in Byte1s } \cup { <<111, FALSE>>, <<200, FALSE>> }

\* The senders of a fan-out run: a1, which every configuration has
\* Connected in the group with the table MediaA, and a3, which is in turn a
\* member with another table, one without a table, an outsider and a
\* member whose record is still New; a2 only receives.
FanoutSources == {"a1", "a3"}

NextFanout ==
    \/ \E addr \in FanoutSources, p \in FanoutPackets : HandleRtc(addr, p[1], p[2])
    \/ PacketSteps

SpecFanout == InitFanout /\ [][NextFanout]_vars

\* The life of the client records of two signalled clients: a1 and a2 are
\* Connected, have the same media table and share group 1. Datagrams of
\* both kinds arrive from either, with the tasks they spawn and the
\* DeleteMessages these send.
LifecycleAddrs == {"a1", "a2"}
\* Their datagrams for the Rtc branch: an RTP packet (pt 111) and an RTCP
\* sender report, both authentic.
LifecycleByte1s == {111, 200}

InitLifecycle ==
    /\ client_storage =
          [a \in Addrs |->
             IF a \in LifecycleAddrs
             THEN [client |-> CHOOSE i \in 1..Len(AddrOrder) : AddrOrder[i] = a,
                   media |-> SomeMedia(MediaA)]
             ELSE NoRef]
    /\ groups =
          [addr_group |-> [a \in Addrs |->
                             IF a \in LifecycleAddrs THEN 1 ELSE NoGroup],
           members |-> [g \in GroupIds |-> IF g = 1 THEN LifecycleAddrs ELSE {}]]
    /\ clients = [c \in Handles |->
                    IF c <= Len(AddrOrder) /\ AddrOrder[c] \in LifecycleAddrs
                    THEN [NewClient(AddrOrder[c]) EXCEPT
                            !.state = "Connected", !.connects = 1,
                            !.hs_read = {0}, !.stream = TRUE]
                    ELSE NoRecord]
    /\ tasks = [t \in TaskIds |-> NoTask]
    /\ counts = [dtls |-> 0, rtc |-> 0]
    /\ mailbox = <<>>
    /\ processor = <<>>
    /\ udp_send = {}
    /\ deleted = [a \in Addrs |-> <<>>]
    /\ calc = NoCalc
    /\ channel = NewChannel

NextLifecycle ==
    \/ /\ counts.dtls + counts.rtc < MaxDatagrams
       /\ \E addr \in LifecycleAddrs : HandleDtls(addr)
    \/ /\ counts.dtls + counts.rtc < MaxDatagrams
       /\ \E addr \in LifecycleAddrs, b1 \in LifecycleByte1s :
             HandleRtc(addr, b1, TRUE)
    \/ HandleDelete
    \/ DtlsSteps
    \/ PacketSteps

SpecLifecycle == InitLifecycle /\ [][NextLifecycle]_vars

\* The same life cycle with the records the handshake engines write: what
\* reaches the sink, DTLS records and fan-out datagrams alike, while
\* records are deleted and created again.
NextEgress ==
    \/ NextLifecycle
    \/ OutgoingSteps

SpecEgress == InitLifecycle /\ [][NextEgress]_vars

\* The registry and the group router under every kind of message: datagrams
\* of both kinds (MaxDtls in all) from known addresses and the next new one,
\* GroupId for the first two of them, MediaAddrMessage for the first address,
\* the DTLS tasks and the DeleteMessages these send. The packet tasks,
\* which send no message to the actor and leave the registry and the router
\* alone, are not run here.
\* The addresses signalling sends a GroupId for, with or without a record.
RegistryJoiners == {"a1", "a2"}

NextRegistry ==
    \/ /\ counts.dtls + counts.rtc < MaxDtls
       /\ \E addr \in Sources : HandleDtls(addr)
    \/ /\ counts.dtls + counts.rtc < MaxDtls
       /\ \E addr \in Sources, b1 \in LifecycleByte1s : HandleRtc(addr, b1, TRUE)
    \/ HandleDelete
    \/ \E group_id \in GroupIds, addr \in Sources \cap RegistryJoiners :
          HandleGroupId(group_id, addr)
    \/ HandleMedia(AddrOrder[1], MediaA)
    \/ DtlsSteps

SpecRegistry == Init /\ [][NextRegistry]_vars

\* ------------------------------------------------ the helpers on their own

\* The registry, the router and the tasks before any message.
Idle ==
    /\ client_storage = [a \in Addrs |-> NoRef]
    /\ clients = [c \in Handles |-> NoRecord]
    /\ groups = EmptyGroup
    /\ tasks = [t \in TaskIds |-> NoTask]
    /\ counts = [dtls |-> 0, rtc |-> 0]
    /\ mailbox = <<>>
    /\ processor = <<>>
    /\ udp_send = {}
    /\ deleted = [a \in Addrs |-> <<>>]
    /\ channel = NewChannel

\* The values of a u8.
U8 == 0..255

\* calculate_payload on every marker and every u8 payload type.
InitPayload ==
    /\ Idle
    /\ calc \in { [op |-> "payload", marker |-> m, payload |-> pt] :
                    m \in BOOLEAN, pt \in U8 }

\* The call calculate_payload(*marker, new_payload) of the RTP filter_map.
CalculatePayload ==
    /\ calc.op = "payload"
    /\ calc' = [op |-> "calculate_payload", marker |-> calc.marker,
                payload |-> calc.payload,
                byte |-> calculate_payload(calc.marker, calc.payload)]
    /\ UNCHANGED <<channel, client_storage, clients, groups, tasks, counts, mailbox,
                   processor, udp_send, deleted>>

NextPayload == CalculatePayload

SpecPayload == InitPayload /\ [][NextPayload]_vars

\* Media tables for the translation: every list of one to MaxTableLen pairs
\* over three payload types and two codec names.
Pts == {96, 97, 111}
Names == {"opus", "h264"}
Pairs == { <<pt, name>> : pt \in Pts, name \in Names }
Tables == UNION { [1..n -> Pairs] : n \in 1..MaxTableLen }

\* A client_ref whose media table is list.
MediaRef(list) == [client |-> NoClient, media |-> SomeMedia(list)]

\* The payload type the fan-out chooses for a destination with table dst,
\* for a packet with byte 1 b1 from a source with table src: the codec is
\* looked up in src, its name in dst. NoId when either lookup finds nothing.
Translate(src, dst, b1) ==
    LET codec == Codec(MediaRef(src), b1) IN
    IF codec.some THEN new_payload(SomeMedia(dst), codec) ELSE NoId

\* The byte 1 the destination receives, or NoId when it is skipped.
Egress(src, dst, b1) ==
    IF Translate(src, dst, b1) = NoId THEN NoId
    ELSE calculate_payload(HeaderMarker(b1), Translate(src, dst, b1))

InitMedia ==
    /\ Idle
    /\ calc \in { [op |-> "media", src |-> src, dst |-> dst, b1 |-> b1] :
                    src \in Tables, dst \in Tables,
                    b1 \in Pts \cup { pt + 128 : pt \in Pts } }

\* The codec lookup and the payload rewrite for one source and one
\* destination, then the same for the packet the destination would send
\* back with the byte it received.
TranslateMedia ==
    /\ calc.op = "media"
    /\ calc' = [op |-> "translated", src |-> calc.src, dst |-> calc.dst,
                b1 |-> calc.b1,
                dest_pt |-> Translate(calc.src, calc.dst, calc.b1),
                back |-> IF Egress(calc.src, calc.dst, calc.b1) = NoId THEN NoId
                         ELSE Translate(calc.dst, calc.src,
                                        Egress(calc.src, calc.dst, calc.b1))]
    /\ UNCHANGED <<channel, client_storage, clients, groups, tasks, counts, mailbox,
                   processor, udp_send, deleted>>

NextMedia == TranslateMedia

SpecMedia == InitMedia /\ [][NextMedia]_vars

\* ----------------------------------------- the single-sender group store

\* GroupsStorage = HashMap<usize, SocketAddr>: group id -> sender address,
\* NoSender where the map has no entry.
SenderGroupIds == {1, 2, 3}
NoSender == "none"
EmptyStorage == [g \in SenderGroupIds |-> NoSender]

\* An insert that stores addr whatever the group holds (last writer wins).
insert_or_get_sender_overwrite(groups_storage, group_id, addr) ==
    [storage |-> [groups_storage EXCEPT ![group_id] = addr], sender |-> addr]

\* Group::insert_or_get_sender: *entry(group_id).or_insert(addr), the map
\* afterwards and the address returned.
insert_or_get_sender(groups_storage, group_id, addr) ==
    IF groups_storage[group_id] = NoSender
    THEN [storage |-> [groups_storage EXCEPT ![group_id] = addr], sender |-> addr]
    ELSE [storage |-> groups_storage, sender |-> groups_storage[group_id]]

\* Group::remove_sender: the entries whose sender is not addr, collected
\* into a new map.
remove_sender(groups_storage, addr) ==
    [g \in SenderGroupIds |->
       IF groups_storage[g] # NoSender /\ addr # groups_storage[g]
       THEN groups_storage[g] ELSE NoSender]

\* Group::default(), no call made yet.
InitSender ==
    /\ Idle
    /\ calc = [op |-> "default", group_id |-> NoGroup, addr |-> "none",
               before |-> EmptyStorage, storage |-> EmptyStorage,
               sender |-> NoSender, twice |-> EmptyStorage]

\* A call of insert_or_get_sender on the store the last call left.
InsertOrGetSender(group_id, addr) ==
    /\ calc' = [op |-> "insert_or_get_sender", group_id |-> group_id,
                addr |-> addr, before |-> calc.storage,
                storage |-> insert_or_get_sender(calc.storage, group_id, addr).storage,
                sender |-> insert_or_get_sender(calc.storage, group_id, addr).sender,
                twice |-> EmptyStorage]
    /\ UNCHANGED <<channel, client_storage, clients, groups, tasks, counts, mailbox,
                   processor, udp_send, deleted>>

\* A call of remove_sender on the store the last call left, with what a
\* second call right after it would leave.
RemoveSender(addr) ==
    /\ calc' = [op |-> "remove_sender", group_id |-> NoGroup, addr |-> addr,
                before |-> calc.storage,
                storage |-> remove_sender(calc.storage, addr),
                sender |-> NoSender,
                twice |-> remove_sender(remove_sender(calc.storage, addr), addr)]
    /\ UNCHANGED <<channel, client_storage, clients, groups, tasks, counts, mailbox,
                   processor, udp_send, deleted>>

NextSender ==
    \/ \E group_id \in SenderGroupIds, addr \in Addrs : InsertOrGetSender(group_id, addr)
    \/ \E addr \in Addrs : RemoveSender(addr)

SpecSender == InitSender /\ [][NextSender]_vars

\* ------------------------------------------------- the duplex byte channel

\* Lengths of the datagrams pushed and of the buffers read into.
MsgLens == {1, 2, 3}
BufLens == {2, 3}

\* The k-th datagram pushed, len bytes long: every byte is k, so that a
\* fragment or a concatenation is no datagram.
Message(k, len) == [i \in 1..len |-> k]

\* The frame of the channel's steps.
ChannelOnly ==
    UNCHANGED <<client_storage, clients, groups, tasks, counts, mailbox,
                processor, udp_send, deleted, calc>>

\* incoming_writer.send(message) on the UnboundedSender<Vec<u8>>.
ChannelPush(len) ==
    /\ channel.open
    /\ Len(channel.pushed) < MaxPush
    /\ LET message == Message(Len(channel.pushed) + 1, len) IN
       channel' = [channel EXCEPT !.incoming = Append(@, message),
                                  !.pushed = Append(@, message)]
    /\ ChannelOnly

\* The ClientSslPacketsChannels are dropped (peer gone): the incoming
\* channel loses its sender and the outgoing channel its receiver.
ChannelClose ==
    /\ channel.open
    /\ channel' = [channel EXCEPT !.open = FALSE]
    /\ ChannelOnly

\* A poll_read that fills the buffer with the head of a datagram longer
\* than the buffer.
read_result_truncating(ch, buf_len) ==
    IF ch.terminated
    THEN [kind |-> "ConnectionAborted", data |-> <<>>, closed |-> ~ch.open]
    ELSE IF ch.incoming # <<>>
    THEN [kind |-> "Ok",
          data |-> IF buf_len < Len(Head(ch.incoming))
                   THEN SubSeq(Head(ch.incoming), 1, buf_len)
                   ELSE Head(ch.incoming),
          closed |-> ~ch.open]
    ELSE IF ~ch.open
    THEN [kind |-> "ConnectionAborted", data |-> <<>>, closed |-> TRUE]
    ELSE [kind |-> "Pending", data |-> <<>>, closed |-> FALSE]

\* What poll_read returns for a buffer of buf_len bytes; Pending when the
\* incoming channel is empty and its sender alive. `closed` notes whether
\* the channel was closed when the read was made.
read_result(ch, buf_len) ==
    IF ch.terminated
    THEN [kind |-> "ConnectionAborted", data |-> <<>>, closed |-> ~ch.open]
    ELSE IF ch.incoming # <<>>
    THEN IF buf_len < Len(Head(ch.incoming))
         THEN [kind |-> "UnexpectedEof", data |-> <<>>, closed |-> ~ch.open]
         ELSE [kind |-> "Ok", data |-> Head(ch.incoming), closed |-> ~ch.open]
    ELSE IF ~ch.open
    THEN [kind |-> "ConnectionAborted", data |-> <<>>, closed |-> TRUE]
    ELSE [kind |-> "Pending", data |-> <<>>, closed |-> FALSE]

\* AsyncRead for ClientSslPackets::poll_read, when it is Ready: the message
\* taken from the receiver is gone whatever the result, and a receiver that
\* returned None is terminated.
poll_read(buf_len) ==
    /\ Len(channel.reads) < MaxOps
    /\ read_result(channel, buf_len).kind # "Pending"
    /\ channel' = [channel EXCEPT
                     !.reads = Append(@, read_result(channel, buf_len)),
                     !.incoming = IF ~channel.terminated /\ @ # <<>>
                                  THEN Tail(@) ELSE @,
                     !.terminated = @ \/ (channel.incoming = <<>> /\ ~channel.open)]
    /\ ChannelOnly

\* What poll_write returns: outgoing_writer.send fails once the receiver of
\* the outgoing channel is gone or the sender itself was closed by
\* poll_shutdown. `closed` notes whether the channel was closed (its
\* ClientSslPacketsChannels dropped) when the write was made, `shutdown`
\* whether the sender had been shut down.
write_result(ch, len) ==
    IF ch.open /\ ~ch.shutdown
    THEN [kind |-> "Ok", n |-> len, closed |-> FALSE, shutdown |-> FALSE]
    ELSE [kind |-> "WriteZero", n |-> 0, closed |-> ~ch.open,
          shutdown |-> ch.shutdown]

\* AsyncWrite for ClientSslPackets::poll_write of len bytes.
poll_write(len) ==
    /\ Len(channel.writes) < MaxOps
    /\ channel' = [channel EXCEPT
                     !.writes = Append(@, write_result(channel, len)),
                     !.outgoing = IF write_result(channel, len).kind = "Ok"
                                  THEN Append(@, Message(0, len)) ELSE @]
    /\ ChannelOnly

\* AsyncWrite for ClientSslPackets::poll_shutdown: poll_close_unpin
\* disconnects the outgoing sender and is Ready(Ok(())) whatever the state
\* of the receiver; what was written before stays in the outgoing channel.
\* (poll_flush of the unbounded sender is Ready(Ok(())) and changes
\* nothing.)
poll_shutdown ==
    /\ channel' = [channel EXCEPT !.shutdown = TRUE]
    /\ ChannelOnly

InitChannel ==
    /\ Idle
    /\ calc = NoCalc

NextChannel ==
    \/ \E len \in MsgLens : ChannelPush(len)
    \/ ChannelClose
    \/ \E buf_len \in BufLens : poll_read(buf_len)
    \/ \E len \in MsgLens : poll_write(len)
    \/ poll_shutdown

SpecChannel == InitChannel /\ [][NextChannel]_vars

\* ------------------------------------------------------------ properties

\* C1: for two packets dispatched in order from one source, the datagram of
\* the earlier packet is submitted to the sink for a destination before the
\* datagram of the later packet is submitted for that destination: no
\* datagram is submitted after one of a later packet with the same source
\* and destination.
C1_PerDestinationOrder ==
    [][\A dg \in udp_send' \ udp_send :
          ~\E later \in udp_send :
              /\ later.src = dg.src
              /\ later.dst = dg.dst
              /\ later.task > dg.task]_vars

\* C2: for every client record at most one task is inside the New arm
\* (connect and what follows it), connect is entered at most once, and while
\* the record is New the datagram of every task waiting for the guard sits in
\* the incoming channel or was read by the handshake.
C2_SingleHandshakeDriver ==
    \A c \in Allocated :
        /\ Cardinality({ t \in TaskIds :
                           /\ tasks[t].kind = "dtls"
                           /\ tasks[t].client = c
                           /\ tasks[t].pc \in {"connect", "connect_del", "connect_end"} }) <= 1
        /\ clients[c].connects <= 1
        /\ \A t \in TaskIds :
              (/\ tasks[t].kind = "dtls"
               /\ tasks[t].client = c
               /\ tasks[t].pc = "lock"
               /\ clients[c].state = "New")
              => \/ t \in clients[c].hs_read
                 \/ \E i \in 1..Len(clients[c].incoming) : clients[c].incoming[i] = t

\* C2 happens: one task drives the handshake of a record and has read the
\* datagram of another task that waits for the guard of the same record.
C2_Witness ==
    \E t \in TaskIds, u \in TaskIds :
        /\ t # u
        /\ tasks[t].pc = "connect"
        /\ tasks[u].pc = "lock"
        /\ tasks[u].client = tasks[t].client
        /\ u \in clients[tasks[t].client].hs_read

\* The state a failed handshake leaves, at every moment: the task that met
\* the failure has its DeleteMessage in the mailbox until it is handled,
\* after which the registry no longer holds the record; a Shutdown record is
\* in the registry only while a DeleteMessage for its address is pending.
C3_Deleted ==
    /\ \A t \in TaskIds :
          tasks[t].pc = "connect_del"
          => /\ clients[tasks[t].client].state = "Shutdown"
             /\ \E i \in 1..Len(mailbox) :
                   mailbox[i] = DeleteMessage(tasks[t].addr, t)
    /\ \A t \in TaskIds :
          tasks[t].pc = "connect_end"
          => /\ clients[tasks[t].client].state = "Shutdown"
             /\ client_storage[tasks[t].addr].client # tasks[t].client
    /\ \A c \in Allocated :
          clients[c].state = "Shutdown"
          => \/ client_storage[clients[c].addr].client # c
             \/ \E i \in 1..Len(mailbox) : mailbox[i].addr = clients[c].addr

\* C3: a failed handshake sends DeleteMessage(addr), the record is absent
\* from the registry once it is handled, and the record never becomes
\* Connected afterwards (Shutdown is kept by every step).
C3_HandshakeFailureDeletes ==
    /\ []C3_Deleted
    /\ [][\A c \in Handles :
             clients[c].state = "Shutdown" => clients'[c].state = "Shutdown"]_vars

\* C3 happens: a handshake failed, its DeleteMessage was handled, and the
\* Shutdown record is gone from the registry.
C3_Witness ==
    \E t \in TaskIds :
        /\ tasks[t].pc = "connect_end"
        /\ mailbox = <<>>
        /\ ~contains_key(client_storage, tasks[t].addr)

\* C4: of two consecutive DeleteMessage(a) for an address with a client
\* record, with no datagram from a in between, the first returns true and
\* the second returns false.
C4_DeleteTrueThenFalse ==
    \A a \in Addrs :
        /\ (Len(deleted[a]) >= 1 /\ deleted[a][1].existed) => deleted[a][1].result
        /\ Len(deleted[a]) >= 2 => ~deleted[a][2].result

\* C5: right after a DeleteMessage(a) is handled, a has no record in the
\* registry and is a member of no group, and no address has a among its
\* fan-out destinations.
C5_DeleteClearsBothStores ==
    [][(mailbox # <<>> /\ mailbox' = Tail(mailbox))
       => LET a == Head(mailbox).addr IN
          /\ ~contains_key(client_storage', a)
          /\ groups'.addr_group[a] = NoGroup
          /\ \A g \in GroupIds : a \notin groups'.members[g]
          /\ \A x \in Addrs : a \notin get_addressess(groups', x).set]_vars

\* C5 happens: a DeleteMessage for an address with a record and a group
\* membership was handled, and the address is in neither store.
C5_Witness ==
    \E a \in Addrs :
        /\ deleted[a] # <<>>
        /\ deleted[a][1].result
        /\ ~contains_key(client_storage, a)
        /\ groups.addr_group[a] = NoGroup

\* C6: the destination map of a packet never holds the packet's source, and
\* no datagram in the sink is addressed to the source of its packet.
C6_NoSelfForwarding ==
    /\ \A t \in TaskIds :
          tasks[t].kind = "rtc"
          => /\ \A d \in tasks[t].addresses : d.addr # tasks[t].addr
             /\ tasks[t].cur # NoDest => tasks[t].cur.addr # tasks[t].addr
    /\ \A dg \in udp_send : dg.dst # dg.src

\* C6 happens: one packet was fanned out to two other members of the group.
C6_Witness ==
    \E dg \in udp_send, other \in udp_send :
        /\ dg.task = other.task
        /\ dg.dst # other.dst

\* C7: the destinations of an RTP packet are exactly the other members of
\* the source's group whose media table holds the packet's codec name, and
\* every RTP datagram in the sink goes to such a member.
C7_MissingCodecSkipsOnlyThatDestination ==
    LET name(src, b1) == get_name(client_storage[src].media.list, b1 % 128)
        has(x, n) ==
            /\ client_storage[x].media.some
            /\ \E i \in 1..Len(client_storage[x].media.list) :
                  client_storage[x].media.list[i][2] = n
    IN
    /\ \A t \in TaskIds :
          (/\ tasks[t].kind = "rtc"
           /\ ~tasks[t].is_rtcp
           /\ tasks[t].pc \in {"lock_src", "unprotect"})
          => { d.addr : d \in tasks[t].addresses }
             = { x \in groups.members[groups.addr_group[tasks[t].addr]]
                         \ {tasks[t].addr} :
                   has(x, name(tasks[t].addr, tasks[t].b1)) }
    /\ \A dg \in udp_send :
          ~is_rtcp(dg.b1) => has(dg.dst, name(dg.src, dg.b1))

\* C7 happens: an RTP datagram went to one member of the group while another
\* member, whose table lacks the codec or who has no table, got none.
C7_Witness ==
    \E dg \in udp_send :
        /\ ~is_rtcp(dg.b1)
        /\ \E x \in groups.members[groups.addr_group[dg.src]] \ {dg.src} :
              /\ \A i \in 1..Len(client_storage[x].media.list) :
                    client_storage[x].media.list[i][2]
                       # get_name(client_storage[dg.src].media.list, dg.b1 % 128)
              /\ \A other \in udp_send : other.task = dg.task => other.dst # x

\* C8: for every marker and every u8 payload type the egress byte is
\* (marker << 7) | (pt & 0x7F), so its top bit is the marker.
C8_PayloadByteRewrite ==
    calc.op = "calculate_payload"
    => /\ calc.byte = BitOr(Shl8(BoolU8(calc.marker), 7),
                            BitAnd(calc.payload, 127, 8), 8)
       /\ ((calc.byte \div 128) = 1) = calc.marker

\* The codec name of the packet's payload type is in both tables.
C9_InBoth ==
    /\ calc.op = "translated"
    /\ get_name(calc.src, calc.b1 % 128) # NoName
    /\ get_id(calc.dst, get_name(calc.src, calc.b1 % 128)) # NoId

\* The translation is the composition of the two lookups and comes back to
\* the source payload type with the roles swapped.
C9_ThereAndBack ==
    /\ calc.dest_pt = get_id(calc.dst, get_name(calc.src, calc.b1 % 128))
    /\ calc.back = calc.b1 % 128

\* C9 as stated: for any two tables and any source payload type whose codec
\* name is in both, the destination payload type is
\* dst.get_id(src.get_name(pt)) and translating it back returns pt.
C9_RoundTrip == C9_InBoth => C9_ThereAndBack

\* C9, amended: the same when no codec name occurs twice in the source table
\* and no payload type occurs twice in the destination table.
C9_RoundTripUnique ==
    (/\ C9_InBoth
     /\ \A i \in 1..Len(calc.src), j \in 1..Len(calc.src) :
           calc.src[i][2] = calc.src[j][2] => i = j
     /\ \A i \in 1..Len(calc.dst), j \in 1..Len(calc.dst) :
           calc.dst[i][1] = calc.dst[j][1] => i = j)
    => C9_ThereAndBack

\* C9 happens: a packet with the marker set is remapped to another payload
\* type between two tables of two codecs each, and comes back.
C9_Witness ==
    /\ C9_InBoth
    /\ Len(calc.src) = 2 /\ calc.src[1][2] # calc.src[2][2]
    /\ Len(calc.dst) = 2 /\ calc.dst[1][1] # calc.dst[2][1]
    /\ calc.b1 >= 128
    /\ calc.dest_pt # calc.b1 % 128
    /\ calc.back = calc.b1 % 128

\* C10: a GroupId or a MediaAddrMessage whose address has no client record
\* leaves the registry (media tables included), the client records and the
\* group router as they were.
C10_UnknownAddressSignallingIsNoOp ==
    [][\A addr \in Addrs :
          (/\ ~contains_key(client_storage, addr)
           /\ \/ \E group_id \in GroupIds : HandleGroupId(group_id, addr)
              \/ \E media \in Medias : HandleMedia(addr, media))
          => UNCHANGED <<client_storage, clients, groups>>]_vars

\* C10 happens: the last message handled was a GroupId for an address
\* whose record a DeleteMessage had removed, while another address has a
\* record, a group and a media table; the unknown address is in no group.
C10_Witness ==
    /\ calc.op = "GroupId"
    /\ ~contains_key(client_storage, calc.addr)
    /\ deleted[calc.addr] # <<>>
    /\ deleted[calc.addr][1].existed
    /\ groups.addr_group[calc.addr] = NoGroup
    /\ \A g \in GroupIds : calc.addr \notin groups.members[g]
    /\ \E a \in Addrs :
          /\ contains_key(client_storage, a)
          /\ groups.addr_group[a] # NoGroup
          /\ client_storage[a].media.some

\* C11: a task leaving the Connected arm's read sends DeleteMessage(addr)
\* exactly when the read returned zero bytes; when the deadline expired the
\* registry and the group router are unchanged and the client is still
\* Connected.
C11_PostHandshakeRead ==
    [][\A t \in TaskIds :
          (tasks[t].pc = "extract" /\ tasks'[t].pc # "extract")
          => LET c == tasks[t].client
                 a == tasks[t].addr IN
             /\ calc'.op = "extract_dtls"
             /\ clients[c].state = "Connected"
             /\ (calc'.result = "zero")
                   <=> (mailbox' = Append(mailbox, DeleteMessage(a, t)))
             /\ (calc'.result # "zero") <=> (mailbox' = mailbox)
             /\ calc'.result = "timeout"
                   => /\ client_storage' = client_storage
                      /\ groups' = groups
                      /\ clients'[c].state = "Connected"]_vars

\* C11 happens: the read of a Connected, grouped client hit its deadline;
\* the client is in the registry, in its group and Connected, and no
\* DeleteMessage is pending.
C11_Witness ==
    /\ calc.op = "extract_dtls"
    /\ calc.result = "timeout"
    /\ mailbox = <<>>
    /\ contains_key(client_storage, calc.addr)
    /\ groups.addr_group[calc.addr] # NoGroup
    /\ clients[client_storage[calc.addr].client].state = "Connected"

\* C12: when the unprotect of a packet fails (the packet does not
\* authenticate, or its source is not Connected) the packet's task ends at
\* once with nothing submitted and the registry and the group router
\* untouched; and every datagram submitted to the sink derives from a packet
\* that authenticated and whose source is Connected.
C12_SrtpFailureContained ==
    [][\A t \in TaskIds :
          /\ (/\ tasks[t].pc = "unprotect"
              /\ processor # <<>>
              /\ Head(processor) = t
              /\ processor' = Tail(processor)
              /\ \/ ~tasks[t].auth
                 \/ clients[tasks[t].client].state # "Connected")
             => /\ tasks'[t] = NoTask
                /\ udp_send' = udp_send
                /\ client_storage' = client_storage
                /\ groups' = groups
          /\ (\E dg \in udp_send' \ udp_send : dg.task = t)
             => /\ tasks[t].auth
                /\ clients[tasks[t].client].state = "Connected"]_vars

\* C12 happens: the last packet dropped came from a source that is still in
\* the registry and in its group, and nothing derived from it is in the
\* sink, while a datagram of another packet is.
C12_Witness ==
    /\ calc.op = "dropped"
    /\ tasks[calc.task] = NoTask
    /\ \A dg \in udp_send : dg.task # calc.task
    /\ \E dg \in udp_send :
          /\ contains_key(client_storage, dg.src)
          /\ groups.addr_group[dg.src] # NoGroup
    /\ \A a \in Addrs : contains_key(client_storage, a)

\* C13: the destinations of an RTCP packet are exactly the other members of
\* the source's group that have a client record, whatever their media
\* tables, each with payload 0 (no payload type is looked up); an RTCP
\* datagram in the sink carries the byte 1 it came with.
C13_RtcpFanout ==
    /\ \A t \in TaskIds :
          (/\ tasks[t].kind = "rtc"
           /\ tasks[t].is_rtcp
           /\ tasks[t].pc \in {"lock_src", "unprotect"})
          => /\ { d.addr : d \in tasks[t].addresses }
                = { x \in groups.members[groups.addr_group[tasks[t].addr]]
                            \ {tasks[t].addr} :
                      contains_key(client_storage, x) }
             /\ \A d \in tasks[t].addresses :
                   /\ d.payload = 0
                   /\ d.client = client_storage[d.addr].client
    /\ \A dg \in udp_send :
          is_rtcp(dg.b1)
          => /\ dg.payload = 0
             /\ dg.dst \in groups.members[groups.addr_group[dg.src]] \ {dg.src}

\* C13 happens: an RTCP datagram was submitted for a member without a media
\* table.
C13_Witness ==
    \E dg \in udp_send :
        /\ is_rtcp(dg.b1)
        /\ ~client_storage[dg.dst].media.some

\* C14: every successful read of the duplex channel returns exactly one whole
\* pushed datagram, never a fragment and never two joined, and successive
\* successful reads return the datagrams in the order they were pushed.
C14_WholeDatagramsInPushOrder ==
    \A i \in 1..Len(channel.reads) :
        channel.reads[i].kind = "Ok" =>
            \E k \in 1..Len(channel.pushed) :
                /\ channel.reads[i].data = channel.pushed[k]
                /\ \A j \in 1..(i - 1) :
                       channel.reads[j].kind = "Ok" =>
                           \E h \in 1..(k - 1) :
                               channel.reads[j].data = channel.pushed[h]

\* Two datagrams of different lengths, the second longer than one byte, were
\* pushed and both read successfully.
C14_Witness ==
    /\ Len(channel.pushed) = 2
    /\ Len(channel.pushed[1]) # Len(channel.pushed[2])
    /\ Len(channel.pushed[2]) > 1
    /\ \E i, j \in 1..Len(channel.reads) :
           /\ i < j
           /\ channel.reads[i].kind = "Ok"
           /\ channel.reads[j].kind = "Ok"
           /\ channel.reads[i].data = channel.pushed[1]
           /\ channel.reads[j].data = channel.pushed[2]

\* C15: once the duplex channel has been closed, every read yields
\* ConnectionAborted and returns no data, and every write yields WriteZero
\* and reports no success.
C15_ClosedChannelOutcomes ==
    /\ \A i \in 1..Len(channel.reads) :
           channel.reads[i].closed =>
               /\ channel.reads[i].kind = "ConnectionAborted"
               /\ channel.reads[i].data = <<>>
    /\ \A i \in 1..Len(channel.writes) :
           channel.writes[i].closed =>
               /\ channel.writes[i].kind = "WriteZero"
               /\ channel.writes[i].n = 0

\* C16: after the record of address a was deleted, the next datagram from a,
\* DTLS or RTP/RTCP, creates a record of its own in state New, with no SRTP
\* sessions, no media table and no group membership; and a handshake is
\* started only by the task of a DTLS datagram, never by an RTP/RTCP one.
C16_FreshRecordAfterDeletion ==
    [][/\ \A a \in Seen :
            (~contains_key(client_storage, a) /\ contains_key(client_storage', a))
            => LET h == client_storage'[a].client IN
               /\ clients[h].state = "None"
               /\ clients'[h] = [NewClient(a) EXCEPT !.stream = clients'[h].stream]
               /\ client_storage'[a].media = NoMedia
               /\ groups'.addr_group[a] = NoGroup
               /\ \A g \in GroupIds : a \notin groups'.members[g]
       /\ \A c \in Handles :
            clients'[c].connects # clients[c].connects
            => \E t \in TaskIds :
                  /\ tasks[t].kind = "dtls"
                  /\ tasks[t].client = c
                  /\ tasks[t].pc = "lock"
                  /\ tasks'[t].pc = "connect"
       /\ \A t \in TaskIds :
            (tasks'[t].kind = "dtls" /\ tasks[t].kind # "dtls")
            => counts'.dtls = counts.dtls + 1]_vars

\* The record of an address was deleted after its only DTLS datagram, and an
\* RTP/RTCP datagram created the record the address has now, which is New
\* with no handshake run on it.
C16_Witness ==
    \E a \in Addrs :
        /\ counts.dtls = 1
        /\ counts.rtc >= 1
        /\ contains_key(client_storage, a)
        /\ \A i \in 1..Len(AddrOrder) :
               AddrOrder[i] = a => client_storage[a].client # i
        /\ clients[client_storage[a].client] = NewClient(a)
        /\ \A t \in TaskIds : tasks[t] = NoTask

\* C17: after any sequence of GroupId and DeleteMessage messages, also when
\* an address joins under different group ids, every address is a member of
\* at most one group.
C17_AtMostOneGroup ==
    \A a \in Addrs :
        Cardinality({ g \in GroupIds : a \in groups.members[g] }) <= 1

\* C18: connect, which installs the SRTP sessions, is invoked only on a
\* record in state New; a Connected record never returns to New and never
\* has its sessions replaced; a Shutdown record never changes state again,
\* and the task of a DTLS datagram that finds it in Shutdown starts no
\* handshake and no read.
C18_ClientStateMachine ==
    [][\A c \in Handles :
          /\ clients'[c].connects # clients[c].connects
             => /\ clients[c].state = "New"
                /\ clients'[c].connects = clients[c].connects + 1
          /\ clients[c].state = "Connected"
             => /\ clients'[c].state # "New"
                /\ clients'[c].connects = clients[c].connects
                /\ clients'[c].hs_read = clients[c].hs_read
          /\ clients[c].state = "Shutdown"
             => /\ clients'[c].state = "Shutdown"
                /\ clients'[c].connects = clients[c].connects
                /\ clients'[c].hs_read = clients[c].hs_read
                /\ \A t \in TaskIds :
                      (tasks[t].client = c /\ tasks[t].pc = "lock")
                      => tasks'[t].pc \notin {"connect", "extract"}]_vars

\* One record took both DTLS datagrams of the run: the handshake ran once
\* and failed, the task of the other datagram found the record in Shutdown,
\* and both tasks are over.
C18_Witness ==
    /\ counts.dtls = 2
    /\ Cardinality(Allocated) = 1
    /\ \A t \in TaskIds : tasks[t] = NoTask
    /\ \E c \in Allocated :
          /\ clients[c].state = "Shutdown"
          /\ clients[c].connects = 1

\* The tasks that wait for the guard of a client record, and the record
\* each waits for.
C19_Waiting == { t \in TaskIds : tasks[t].pc \in {"lock", "lock_src", "lock_dst"} }
C19_Wanted(t) == IF tasks[t].pc = "lock_dst" THEN tasks[t].cur.client ELSE tasks[t].client

\* C19: no task holds the guards of two client records at once (a task
\* that waits for a guard holds none), and the packet tasks and DTLS tasks
\* never reach a state in which those that wait for a guard wait forever:
\* the holder of a wanted guard is not waiting itself, the holder of the
\* mutex of an incoming sender holds no guard and waits only for the reply
\* to its DeleteMessage, and some step of a task, of the processor or of
\* the DeleteMessage handler can be taken.
C19_NoNestedLockingNoDeadlock ==
    /\ \A t \in TaskIds :
          Cardinality({ c \in Handles : clients[c].lock = t }) <= 1
    /\ \A t \in C19_Waiting : \A c \in Handles : clients[c].lock # t
    /\ \A t \in C19_Waiting :
          clients[C19_Wanted(t)].lock # 0
          => clients[C19_Wanted(t)].lock \notin C19_Waiting
    /\ \A t \in TaskIds : \A c \in Handles :
          clients[c].writer = t
          => /\ tasks[t].pc \in {"push_del", "push_drop"}
             /\ \A d \in Handles : clients[d].lock # t
    /\ (C19_Waiting # {} \/ \E t \in TaskIds : tasks[t].pc = "push")
       => ENABLED (DtlsSteps \/ PacketSteps \/ HandleDelete)

\* A packet task holds the guard of its destination, which is the source of
\* another packet task and the client of a DTLS task, both waiting for it.
C19_Witness ==
    \E t1, t2, t3 \in TaskIds :
        /\ tasks[t1].kind = "rtc"
        /\ tasks[t1].pc = "protect"
        /\ clients[tasks[t1].cur.client].lock = t1
        /\ tasks[t2].kind = "rtc"
        /\ tasks[t2].pc = "lock_src"
        /\ tasks[t2].client = tasks[t1].cur.client
        /\ tasks[t3].kind = "dtls"
        /\ tasks[t3].pc = "lock"
        /\ tasks[t3].client = tasks[t1].cur.client

\* C20: every DTLS push into a client's incoming channel, every SRTP
\* unprotect or protect on a client's sessions and every media-table lookup
\* against a client is made while the acting task holds the guard of that
\* client record, and a guard held by one task is never taken by another.
C20_MutationsUnderClientMutex ==
    [][/\ \A t \in TaskIds :
            (tasks[t].pc = "push" /\ tasks'[t].pc # "push")
            => clients[tasks[t].client].lock = t
       /\ \A t \in TaskIds :
            (tasks[t].pc = "unprotect" /\ tasks'[t].pc # "unprotect")
            => clients[tasks[t].client].lock = t
       /\ \A t \in TaskIds :
            (tasks[t].pc = "protect" /\ tasks'[t].pc # "protect")
            => clients[tasks[t].cur.client].lock = t
       /\ \A t \in TaskIds :
            (tasks[t] = NoTask /\ tasks'[t].kind = "rtc" /\ ~tasks'[t].is_rtcp)
            => /\ clients'[tasks'[t].client].lock = t
               /\ \A d \in tasks'[t].addresses : clients'[d.client].lock = t
       /\ \A c \in Handles :
            (clients[c].lock # 0 /\ clients'[c].lock # 0)
            => clients'[c].lock = clients[c].lock]_vars

\* The tasks of the DTLS datagrams dispatched for record c that are not over
\* yet, by dispatch number.
C21_DtlsTasks(c) == { t \in TaskIds : tasks[t].kind = "dtls" /\ tasks[t].client = c }

\* C21: the task of a DTLS datagram pushes the datagram into the incoming
\* channel before it starts the handshake, and the first read of the
\* handshake engine of a new client returns the first DTLS datagram
\* received from that address, however the tasks of later datagrams of the
\* address interleave.
C21_FirstDatagramFirst ==
    [][/\ \A t \in TaskIds :
            (tasks[t].pc # "connect" /\ tasks'[t].pc = "connect")
            => tasks[t].pc = "lock"
       /\ \A t \in TaskIds :
            (tasks[t].pc # "lock" /\ tasks'[t].pc = "lock")
            => \/ /\ tasks[t].pc = "push"
                  /\ clients'[tasks[t].client].incoming =
                        Append(clients[tasks[t].client].incoming, t)
               \/ tasks[t].pc = "push_drop"
       /\ \A c \in Handles :
            (clients[c].hs_read = {} /\ clients'[c].hs_read # {})
            => \A t \in clients'[c].hs_read :
                  \A u \in C21_DtlsTasks(c) : t <= u]_vars

\* A task whose push failed waits for the reply to its DeleteMessage, which
\* is in the mailbox, with the mutex of the incoming sender held, and its
\* record is closed for good.
C22_AwaitingDelete ==
    \A t \in TaskIds :
        tasks[t].pc = "push_del"
        => /\ is_closed(clients[tasks[t].client])
           /\ clients[tasks[t].client].writer = t
           /\ \E i \in 1..Len(mailbox) : mailbox[i] = DeleteMessage(tasks[t].addr, t)

\* C22: when the push of a DTLS datagram fails because the incoming channel
\* is closed, DeleteMessage(addr) is sent; once it is handled the record is
\* no longer in the registry; and the task, which goes on to the client's
\* guard, starts no handshake and no post-handshake read on the record.
C22_ClosedChannelDeletes ==
    /\ []C22_AwaitingDelete
    /\ [][\A t \in TaskIds :
             /\ (tasks[t].pc = "push" /\ tasks'[t].pc # "push"
                 /\ is_closed(clients[tasks[t].client]))
                => /\ tasks'[t].pc = "push_del"
                   /\ mailbox' = Append(mailbox, DeleteMessage(tasks[t].addr, t))
                   /\ clients' = [clients EXCEPT ![tasks[t].client].writer = t]
             /\ (tasks[t].pc = "push_del" /\ tasks'[t].pc # "push_del")
                => /\ tasks'[t].pc = "push_drop"
                   /\ client_storage'[tasks[t].addr].client # tasks[t].client
                   /\ is_closed(clients'[tasks[t].client])
             /\ (tasks[t].pc = "push_drop" /\ tasks'[t].pc # "push_drop")
                => /\ tasks'[t].pc = "lock"
                   /\ is_closed(clients'[tasks[t].client])
             /\ (tasks[t].pc = "lock" /\ is_closed(clients[tasks[t].client]))
                => /\ tasks'[t].pc \in {"lock", "done"}
                   /\ is_closed(clients'[tasks[t].client])
                   /\ clients'[tasks[t].client].connects
                         = clients[tasks[t].client].connects]_vars

\* The push of a task failed: its DeleteMessage is in the mailbox while the
\* closed record is still the one the registry holds for the address.
C22_Witness ==
    \E t \in TaskIds :
        /\ tasks[t].pc = "push_del"
        /\ \E i \in 1..Len(mailbox) : mailbox[i].from = t
        /\ client_storage[tasks[t].addr].client = tasks[t].client

\* C23: for a packet that was unprotected, every destination of its map
\* whose own protect and send succeed gets its datagram submitted to the
\* sink, whatever the iteration order of the map and whether or not the
\* protect of another destination fails: when the packet's task ends, no
\* destination with a Connected record is left without its datagram.
C23_IndependentEncrypts ==
    [][\A t \in TaskIds :
          (/\ tasks[t].kind = "rtc"
           /\ tasks[t].pc \in {"protect", "sent"}
           /\ tasks'[t] = NoTask)
          => \A d \in tasks[t].addresses :
                SrtpReady(clients[d.client])
                => \E dg \in udp_send' : dg.task = t /\ dg.dst = d.addr]_vars

\* C24: a datagram is submitted to the sink only for an address that, when
\* it is submitted, has a client record in the registry and, for a datagram
\* derived from an RTP/RTCP packet, is a member of the source's group, also
\* when a DeleteMessage for the destination was handled after the packet
\* was dispatched.
C24_NoEgressToDeleted ==
    [][\A dg \in udp_send' \ udp_send :
          /\ contains_key(client_storage, dg.dst)
          /\ dg.kind = "Rtc" => dg.dst \in get_addressess(groups, dg.src).set]_vars

\* C25: after any sequence of datagram, GroupId, MediaAddrMessage and
\* DeleteMessage handlings, every address that is a member of a group has
\* a client record in the registry.
C25_MembersAreRegistered ==
    \A a \in Addrs :
        (\/ groups.addr_group[a] # NoGroup
         \/ \E g \in GroupIds : a \in groups.members[g])
        => contains_key(client_storage, a)

\* An address that was a member of a group was deleted and is in no group,
\* a GroupId for an address without a record was handled last, and another
\* address has a record and a group.
C25_Witness ==
    /\ \E a \in Addrs :
          /\ deleted[a] # <<>>
          /\ deleted[a][1].result
          /\ ~contains_key(client_storage, a)
          /\ groups.addr_group[a] = NoGroup
    /\ calc.op = "GroupId"
    /\ ~contains_key(client_storage, calc.addr)
    /\ \E b \in Addrs :
          /\ contains_key(client_storage, b)
          /\ groups.addr_group[b] # NoGroup

\* C26: insert_or_get_sender(g, a) stores a only when group g has no sender
\* and otherwise returns the sender g has and leaves the store as it was;
\* remove_sender(a) removes exactly the groups whose sender is a and leaves
\* every other entry as it was, and a second call changes nothing more.
C26_SingleSenderStore ==
    /\ calc.op = "insert_or_get_sender"
       => IF calc.before[calc.group_id] = NoSender
          THEN /\ calc.storage = [calc.before EXCEPT ![calc.group_id] = calc.addr]
               /\ calc.sender = calc.addr
          ELSE /\ calc.storage = calc.before
               /\ calc.sender = calc.before[calc.group_id]
    /\ calc.op = "remove_sender"
       => /\ \A g \in SenderGroupIds :
                calc.storage[g] = IF calc.before[g] = calc.addr THEN NoSender
                                  ELSE calc.before[g]
          /\ calc.twice = calc.storage

\* An insert for a group that has another sender returned that sender and
\* stored nothing, while the address inserted is the sender of another
\* group and a third group has no sender.
C26_Witness ==
    /\ calc.op = "insert_or_get_sender"
    /\ calc.before[calc.group_id] \notin {NoSender, calc.addr}
    /\ calc.sender = calc.before[calc.group_id]
    /\ \E g \in SenderGroupIds : calc.storage[g] = calc.addr
    /\ \E g \in SenderGroupIds : calc.storage[g] = NoSender

====
